---- MODULE Spec2Model ----
(***************************************************************************)
(* Reservation subsystem (src/6.2/src/reservation_system): domain model,   *)
(* JSON storage and the three services, as a state machine over the three  *)
(* collection files.                                                       *)
(*                                                                         *)
(* Strings are sequences of one-character strings.  An Optional argument   *)
(* is a sequence of length 0 (None) or 1 (the value).  A calendar date is  *)
(* the day number inside June 2024; its ISO text is the triple of the      *)
(* fields that "-" separates.                                              *)
(***************************************************************************)
EXTENDS Integers, Sequences, FiniteSets, TLC

VARIABLES hotelsFile, customersFile, reservationsFile, nextId, last, pre,
          removed, procs, disk, storage

vars ==
    <<hotelsFile, customersFile, reservationsFile, nextId, last, pre, removed,
      procs, disk, storage>>

(* ------------------------------ bounds --------------------------------- *)

\* the longest array in a file that JsonStorage did not write
MaxItems == 2

\* number of identifiers _new_id hands out in one behaviour
MaxIds == 4
\* dates range over 1..MaxDay
MaxDay == 3
\* largest room count a caller passes
MaxRooms == 2
\* hotels, customers stored at one time
MaxHotels == 2
MaxCustomers == 1

(* ------------------------------ strings -------------------------------- *)

Whitespace == {" ", "\n"}

RECURSIVE lstrip(_)
lstrip(s) ==
    IF s = <<>> THEN s
    ELSE IF Head(s) \in Whitespace THEN lstrip(Tail(s)) ELSE s

RECURSIVE rstrip(_)
rstrip(s) ==
    IF s = <<>> THEN s
    ELSE IF s[Len(s)] \in Whitespace THEN rstrip(SubSeq(s, 1, Len(s) - 1))
    ELSE s

\* str.strip()
strip(s) == rstrip(lstrip(s))

\* [^@\s]+@[^@\s]+\.[^@\s]+ over the whole of t
EmailShape(t) ==
    \E i, j \in 1..Len(t) :
        /\ 1 < i /\ i + 1 < j /\ j < Len(t)
        /\ t[i] = "@" /\ t[j] = "."
        /\ \A k \in 1..Len(t) : k # i => (t[k] # "@" /\ t[k] \notin Whitespace)

\* EMAIL_RE.match(s): "$" also matches just before one trailing newline
EMAIL_RE(s) ==
    \/ EmailShape(s)
    \/ /\ Len(s) > 0 /\ s[Len(s)] = "\n"
       /\ EmailShape(SubSeq(s, 1, Len(s) - 1))

(* ------------------------------ Optional ------------------------------- *)

None == <<>>
Some(x) == <<x>>
IsNone(o) == Len(o) = 0
Val(o) == o[1]

(* ---------------------------- domain model ----------------------------- *)

HexDigits == <<"1", "2", "3", "4", "5", "6", "7", "8", "9">>

\* a generator that hands the third token out again
_new_id_Recycled(n) == <<HexDigits[IF n > 3 THEN 3 ELSE n]>>

\* uuid.uuid4().hex: the n-th token handed out, distinct from all others
_new_id(n) == <<HexDigits[n]>>

Ok(v) == [err |-> "none", val |-> v]
Raise(e) == [err |-> e, val |-> <<>>]

\* Hotel.create, given the id _new_id returns
HotelCreate(id, name, total_rooms) ==
    IF name = <<>> \/ strip(name) = <<>> THEN Raise("ValidationError")
    ELSE IF total_rooms <= 0 THEN Raise("ValidationError")
    ELSE Ok([id |-> id, name |-> strip(name), total_rooms |-> total_rooms])

\* Customer.create
CustomerCreate(id, name, email) ==
    IF name = <<>> \/ strip(name) = <<>> THEN Raise("ValidationError")
    ELSE IF ~EMAIL_RE(email) THEN Raise("ValidationError")
    ELSE Ok([id |-> id, name |-> strip(name), email |-> strip(email)])

\* __post_init__ that lets a zero-night stay through
ReservationInit_ZeroNights(id, customer_id, hotel_id, check_in, check_out) ==
    IF check_in > check_out THEN Raise("ValidationError")
    ELSE IF customer_id = <<>> THEN Raise("ValidationError")
    ELSE IF hotel_id = <<>> THEN Raise("ValidationError")
    ELSE Ok([id |-> id, customer_id |-> customer_id, hotel_id |-> hotel_id,
             check_in |-> check_in, check_out |-> check_out])

\* Reservation(...) with its __post_init__
ReservationInit(id, customer_id, hotel_id, check_in, check_out) ==
    IF check_in >= check_out THEN Raise("ValidationError")
    ELSE IF customer_id = <<>> THEN Raise("ValidationError")
    ELSE IF hotel_id = <<>> THEN Raise("ValidationError")
    ELSE Ok([id |-> id, customer_id |-> customer_id, hotel_id |-> hotel_id,
             check_in |-> check_in, check_out |-> check_out])

\* Reservation.create
ReservationCreate(id, customer_id, hotel_id, check_in, check_out) ==
    ReservationInit(id, customer_id, hotel_id, check_in, check_out)

Max(a, b) == IF a >= b THEN a ELSE b
Min(a, b) == IF a <= b THEN a ELSE b

\* overlaps over closed ranges
overlaps_Closed(self, other) ==
    Max(self.check_in, other.check_in) <= Min(self.check_out, other.check_out)

\* overlaps that asks whether the other stay begins within this one
overlaps_BeginsWithin(self, other) ==
    self.check_in <= other.check_in /\ other.check_in < self.check_out

\* Reservation.overlaps
overlaps(self, other) ==
    LET latest_start == Max(self.check_in, other.check_in)
        earliest_end == Min(self.check_out, other.check_out)
    IN  latest_start < earliest_end

\* a format that puts the day first
date_to_iso_DayFirst(d) == <<d, 6, 2024>>

\* date.isoformat(), as the fields of YYYY-MM-DD
date_to_iso(d) == <<2024, 6, d>>

\* date_from_iso: three fields, then date(y, m, d) checks the ranges
date_from_iso(parts) ==
    IF Len(parts) # 3 THEN Raise("ValueError")
    ELSE IF parts[1] < 1 \/ parts[2] \notin 1..12 \/ parts[3] \notin 1..30
         THEN Raise("ValueError")
    ELSE Ok(parts[3])

(* ------------------------------ storage -------------------------------- *)

RECURSIVE MapOk(_, _)
\* the list a load_* loop builds: items that raise are skipped
MapOk(F(_), s) ==
    IF s = <<>> THEN <<>>
    ELSE LET r == F(Head(s))
         IN  IF r.err = "none" THEN <<r.val>> \o MapOk(F, Tail(s))
             ELSE MapOk(F, Tail(s))

\* An element of a JSON array is a record of the keys it has; an element
\* that is no object (a number, a string, null, a list) is a record with
\* the one key "scalar".  obj["k"] of an object without k raises KeyError,
\* obj["k"] of a scalar raises TypeError.
Subscript(obj, k) ==
    IF k \in DOMAIN obj THEN "none"
    ELSE IF "scalar" \in DOMAIN obj THEN "TypeError" ELSE "KeyError"

\* str(None)
NoneText == <<"N", "o", "n", "e">>

\* load_hotels: Hotel(...) is built directly, no validation; name and
\* total_rooms are read with get, so a missing name is str(None) and a
\* missing total_rooms is int(None), a TypeError
HotelFromObj(obj) ==
    IF Subscript(obj, "id") # "none" THEN Raise(Subscript(obj, "id"))
    ELSE IF "total_rooms" \notin DOMAIN obj THEN Raise("TypeError")
    ELSE Ok([id |-> obj.id,
             name |-> IF "name" \in DOMAIN obj THEN obj.name ELSE NoneText,
             total_rooms |-> obj.total_rooms])

load_hotels(file) == MapOk(HotelFromObj, file)

\* save_hotels: asdict of each hotel replaces the file
save_hotels(hotels) ==
    [i \in 1..Len(hotels) |->
        [id |-> hotels[i].id, name |-> hotels[i].name,
         total_rooms |-> hotels[i].total_rooms]]

\* load_customers: the three keys are subscripted, in this order
CustomerFromObj(obj) ==
    IF Subscript(obj, "id") # "none" THEN Raise(Subscript(obj, "id"))
    ELSE IF Subscript(obj, "name") # "none"
         THEN Raise(Subscript(obj, "name"))
    ELSE IF Subscript(obj, "email") # "none"
         THEN Raise(Subscript(obj, "email"))
    ELSE Ok([id |-> obj.id, name |-> obj.name, email |-> obj.email])

load_customers(file) == MapOk(CustomerFromObj, file)

save_customers(customers) ==
    [i \in 1..Len(customers) |->
        [id |-> customers[i].id, name |-> customers[i].name,
         email |-> customers[i].email]]

\* one element of load_reservations: the arguments of Reservation(...) are
\* evaluated in order, each key subscripted and each date parsed as it is
\* reached, then __post_init__
ReservationFromObj(obj) ==
    IF Subscript(obj, "id") # "none" THEN Raise(Subscript(obj, "id"))
    ELSE IF Subscript(obj, "customer_id") # "none"
         THEN Raise(Subscript(obj, "customer_id"))
    ELSE IF Subscript(obj, "hotel_id") # "none"
         THEN Raise(Subscript(obj, "hotel_id"))
    ELSE IF Subscript(obj, "check_in") # "none"
         THEN Raise(Subscript(obj, "check_in"))
    ELSE IF date_from_iso(obj.check_in).err # "none" THEN Raise("ValueError")
    ELSE IF Subscript(obj, "check_out") # "none"
         THEN Raise(Subscript(obj, "check_out"))
    ELSE IF date_from_iso(obj.check_out).err # "none" THEN Raise("ValueError")
    ELSE ReservationInit(obj.id, obj.customer_id, obj.hotel_id,
                         date_from_iso(obj.check_in).val,
                         date_from_iso(obj.check_out).val)

load_reservations(file) == MapOk(ReservationFromObj, file)

save_reservations(reservations) ==
    [i \in 1..Len(reservations) |->
        [id |-> reservations[i].id,
         customer_id |-> reservations[i].customer_id,
         hotel_id |-> reservations[i].hotel_id,
         check_in |-> date_to_iso(reservations[i].check_in),
         check_out |-> date_to_iso(reservations[i].check_out)]]

(* --------------------------- files as text ----------------------------- *)

\* What a collection file holds, as far as _safe_load tells contents
\* apart: no file, no characters, white space only, text that is not JSON,
\* JSON that is no list (an object), or a JSON list of items.
Absent == [kind |-> "absent", items |-> <<>>]
Text(kind) == [kind |-> kind, items |-> <<>>]
Array(items) == [kind |-> "array", items |-> items]

\* _safe_load: read_text raises FileNotFoundError, an OSError, for a file
\* that is not there, and the except clause names JSONDecodeError and
\* ValueError only
_safe_load(raw) ==
    IF raw.kind = "absent" THEN Raise("FileNotFoundError")
    ELSE IF raw.kind \in {"empty", "blank"} THEN Ok(<<>>)
    ELSE IF raw.kind = "invalid" THEN Ok(<<>>)
    ELSE IF raw.kind = "object" THEN Ok(<<>>)
    ELSE Ok(raw.items)

\* JsonStorage.load_hotels on the file as it is: the except clause of the
\* loop names JSONDecodeError, ValueError and TypeError, so a KeyError
\* leaves the loop and the call
LoadHotels(raw) ==
    LET data == _safe_load(raw)
    IN  IF data.err # "none" THEN data
        ELSE IF \E i \in 1..Len(data.val) :
                   HotelFromObj(data.val[i]).err = "KeyError"
             THEN Raise("KeyError")
        ELSE Ok(load_hotels(data.val))

LoadCustomers(raw) ==
    LET data == _safe_load(raw)
    IN  IF data.err # "none" THEN data
        ELSE IF \E i \in 1..Len(data.val) :
                   CustomerFromObj(data.val[i]).err = "KeyError"
             THEN Raise("KeyError")
        ELSE Ok(load_customers(data.val))

LoadReservations(raw) ==
    LET data == _safe_load(raw)
    IN  IF data.err # "none" THEN data
        ELSE IF \E i \in 1..Len(data.val) :
                   ReservationFromObj(data.val[i]).err = "KeyError"
             THEN Raise("KeyError")
        ELSE Ok(load_reservations(data.val))

Kinds == {"hotels", "customers", "reservations"}

Load(kind, raw) ==
    IF kind = "hotels" THEN LoadHotels(raw)
    ELSE IF kind = "customers" THEN LoadCustomers(raw)
    ELSE LoadReservations(raw)

\* what save_hotels, save_customers or save_reservations hands to _safe_dump
Dicts(kind, entities) ==
    IF kind = "hotels" THEN save_hotels(entities)
    ELSE IF kind = "customers" THEN save_customers(entities)
    ELSE save_reservations(entities)

(* ------------------------------ helpers -------------------------------- *)

\* [x for x in s if Keep(x)]
Filter(s, Keep(_)) == SelectSeq(s, Keep)

\* next((x for x in s if x.id = id), None)
Find(s, id) ==
    LET hits == SelectSeq(s, LAMBDA x : x.id = id)
    IN  IF hits = <<>> THEN None ELSE Some(Head(hits))

Range(s) == {s[i] : i \in 1..Len(s)}

(* ------------------------------- inputs -------------------------------- *)

\* names a caller passes: empty, blank, padded, plain
NameInputs == {<<>>, <<" ">>, <<" ", "a">>, <<"b">>}

\* emails a caller passes: empty, no top-level part, well-formed, and
\* well-formed followed by a newline
EmailInputs ==
    {<<>>, <<"a", "@", "b">>, <<"a", "@", "b", ".", "c">>,
     <<"a", "@", "b", ".", "c", "\n">>}

RoomInputs == (-1)..MaxRooms

Dates == 1..MaxDay

Opt(S) == {None} \cup {Some(x) : x \in S}

\* The services only compare an id argument for equality with stored ids,
\* so one id that is never handed out stands for every id that matches
\* nothing.
NoSuchId == <<"z">>

HotelIds ==
    LET hotels == load_hotels(hotelsFile)
    IN  {hotels[i].id : i \in 1..Len(hotels)}
CustomerIds ==
    LET customers == load_customers(customersFile)
    IN  {customers[i].id : i \in 1..Len(customers)}
ReservationIds ==
    LET reservations == load_reservations(reservationsFile)
    IN  {reservations[i].id : i \in 1..Len(reservations)}

(* ------------------------- bookkeeping of calls ------------------------ *)

NoArgs ==
    [id |-> <<>>, customer_id |-> <<>>, hotel_id |-> <<>>, name |-> None,
     total_rooms |-> None, email |-> None, check_in |-> 0, check_out |-> 0]

Files ==
    [hotels |-> hotelsFile, customers |-> customersFile,
     reservations |-> reservationsFile]

\* A caller that shares the directory with others: where it is in its
\* call (pc), the hotel it looked up, the reservation it built, the list it
\* holds in memory (mem), the file as it was when that list was loaded
\* (seen), how the call ended, and whether one of its saves ever replaced a
\* file that had changed since it was loaded (stale).
NoCall ==
    [pc |-> "idle", op |-> "none", id |-> <<>>, hotel |-> None,
     new_res |-> None, mem |-> <<>>, seen |-> <<>>, result |-> "none",
     stale |-> FALSE]

\* the two callers that use the same directory at the same time
Procs == {1, 2}

\* the directory as JsonStorage.__init__ leaves a new one: three empty
\* arrays and no temporary file
EmptyDir ==
    [hotels |-> Array(<<>>), customers |-> Array(<<>>),
     reservations |-> Array(<<>>), tmp |-> Absent]

\* The JsonStorage object: whether it has been constructed, and where its
\* _safe_dump is: the collection and the entities being saved, the target
\* file as it was when the dump began, and whether a step has raised.
Built ==
    [built |-> TRUE, pc |-> "idle", kind |-> "none", entities |-> <<>>,
     old |-> Absent, raised |-> FALSE]

\* no call is in progress
Idle == [op |-> "idle", args |-> NoArgs, result |-> "none", ret |-> <<>>]

\* A call runs to completion once the previous one has returned.  last is
\* the completed call: its arguments, how it ended (a return value or the
\* error raised) and the id of the entity returned; pre is the files as
\* they were when it started.
Completed(op, args, result, ret) ==
    /\ last' = [op |-> op, args |-> args, result |-> result, ret |-> ret]
    /\ pre' = Files
    /\ UNCHANGED <<removed, procs, disk, storage>>

\* the ids of the reservations that the completed call took out of the
\* collection
Dropped ==
    {r.id : r \in Range(load_reservations(pre.reservations))}
       \ {r.id : r \in Range(load_reservations(reservationsFile))}

\* the caller takes the result; the next call may start
Return ==
    /\ last # Idle
    /\ last' = Idle
    /\ pre' = Files
    /\ UNCHANGED <<hotelsFile, customersFile, reservationsFile, nextId,
                   removed, procs, disk, storage>>

\* the same, and the ids of the reservations the call removed are recorded
ReturnRecorded ==
    /\ last # Idle
    /\ last' = Idle
    /\ pre' = Files
    /\ removed' = removed \cup Dropped
    /\ UNCHANGED <<hotelsFile, customersFile, reservationsFile, nextId,
                   procs, disk, storage>>

Init ==
    /\ hotelsFile = <<>>
    /\ customersFile = <<>>
    /\ reservationsFile = <<>>
    /\ nextId = 1
    /\ last = Idle
    /\ pre = [hotels |-> <<>>, customers |-> <<>>, reservations |-> <<>>]
    /\ removed = {}
    /\ procs = [p \in Procs |-> NoCall]
    /\ disk = EmptyDir
    /\ storage = Built

(* ----------------------------- HotelService ---------------------------- *)

HotelService_create(name, total_rooms) ==
    /\ last = Idle
    /\ LET hotels == load_hotels(hotelsFile)
           hotel == HotelCreate(_new_id(nextId), name, total_rooms)
           args == [NoArgs EXCEPT !.name = Some(name),
                                  !.total_rooms = Some(total_rooms)]
       IN  IF hotel.err # "none"
           THEN /\ Completed("HotelService.create", args, hotel.err, <<>>)
                /\ UNCHANGED <<hotelsFile, customersFile, reservationsFile,
                               nextId>>
           ELSE /\ nextId <= MaxIds
                /\ Len(hotels) < MaxHotels
                /\ hotelsFile' = save_hotels(Append(hotels, hotel.val))
                /\ nextId' = nextId + 1
                /\ Completed("HotelService.create", args, "ok", hotel.val.id)
                /\ UNCHANGED <<customersFile, reservationsFile>>

\* a cascade that removes nothing
HotelCascade_Keep(reservations, hotel_id) == reservations

\* a delete that drops the reservations of every hotel
HotelCascade_DropAll(reservations, hotel_id) == <<>>

\* the reservations HotelService.delete keeps
HotelCascade(reservations, hotel_id) ==
    Filter(reservations, LAMBDA r : r.hotel_id # hotel_id)

HotelService_delete(hotel_id) ==
    /\ last = Idle
    /\ LET hotels == load_hotels(hotelsFile)
           new_hotels == Filter(hotels, LAMBDA h : h.id # hotel_id)
           reservations == HotelCascade(load_reservations(reservationsFile),
                                        hotel_id)
           args == [NoArgs EXCEPT !.id = hotel_id]
       IN  IF Len(new_hotels) = Len(hotels)
           THEN /\ Completed("HotelService.delete", args, "false", <<>>)
                /\ UNCHANGED <<hotelsFile, customersFile, reservationsFile,
                               nextId>>
           ELSE /\ reservationsFile' = save_reservations(reservations)
                /\ hotelsFile' = save_hotels(new_hotels)
                /\ Completed("HotelService.delete", args, "true", <<>>)
                /\ UNCHANGED <<customersFile, nextId>>

HotelService_get(hotel_id) ==
    /\ last = Idle
    /\ LET h == Find(load_hotels(hotelsFile), hotel_id)
           args == [NoArgs EXCEPT !.id = hotel_id]
       IN  /\ IF IsNone(h)
              THEN Completed("HotelService.get", args, "None", <<>>)
              ELSE Completed("HotelService.get", args, "ok", Val(h).id)
           /\ UNCHANGED <<hotelsFile, customersFile, reservationsFile, nextId>>

\* an update that takes whatever it is given
HotelUpdated_Unchecked(h, name, total_rooms) ==
    [id |-> h.id,
     name |-> IF IsNone(name) THEN h.name ELSE Val(name),
     total_rooms |-> IF IsNone(total_rooms) THEN h.total_rooms
                     ELSE Val(total_rooms)]

\* an update that stores the name as it was typed
HotelUpdated_Untrimmed(h, name, total_rooms) ==
    [id |-> h.id,
     name |-> IF ~IsNone(name) /\ strip(Val(name)) # <<>>
              THEN Val(name) ELSE h.name,
     total_rooms |-> IF ~IsNone(total_rooms) /\ Val(total_rooms) > 0
                     THEN Val(total_rooms) ELSE h.total_rooms]

\* the replacement HotelService.update builds for the matching hotel
HotelUpdated(h, name, total_rooms) ==
    LET new_name == IF ~IsNone(name) /\ strip(Val(name)) # <<>>
                    THEN strip(Val(name)) ELSE h.name
        new_total == IF ~IsNone(total_rooms) /\ Val(total_rooms) > 0
                     THEN Val(total_rooms) ELSE h.total_rooms
    IN  [id |-> h.id, name |-> new_name, total_rooms |-> new_total]

HotelService_update(hotel_id, name, total_rooms) ==
    /\ last = Idle
    /\ LET hotels == load_hotels(hotelsFile)
           new_hotels == [i \in 1..Len(hotels) |->
                            IF hotels[i].id = hotel_id
                            THEN HotelUpdated(hotels[i], name, total_rooms)
                            ELSE hotels[i]]
           updated == \E i \in 1..Len(hotels) : hotels[i].id = hotel_id
           args == [NoArgs EXCEPT !.id = hotel_id, !.name = name,
                                  !.total_rooms = total_rooms]
       IN  IF ~updated
           THEN /\ Completed("HotelService.update", args, "None", <<>>)
                /\ UNCHANGED <<hotelsFile, customersFile, reservationsFile,
                               nextId>>
           ELSE /\ hotelsFile' = save_hotels(new_hotels)
                /\ Completed("HotelService.update", args, "ok", hotel_id)
                /\ UNCHANGED <<customersFile, reservationsFile, nextId>>

(* ---------------------------- CustomerService -------------------------- *)

CustomerService_create(name, email) ==
    /\ last = Idle
    /\ LET customers == load_customers(customersFile)
           c == CustomerCreate(_new_id(nextId), name, email)
           args == [NoArgs EXCEPT !.name = Some(name), !.email = Some(email)]
       IN  IF c.err # "none"
           THEN /\ Completed("CustomerService.create", args, c.err, <<>>)
                /\ UNCHANGED <<hotelsFile, customersFile, reservationsFile,
                               nextId>>
           ELSE /\ nextId <= MaxIds
                /\ Len(customers) < MaxCustomers
                /\ customersFile' = save_customers(Append(customers, c.val))
                /\ nextId' = nextId + 1
                /\ Completed("CustomerService.create", args, "ok", c.val.id)
                /\ UNCHANGED <<hotelsFile, reservationsFile>>

\* the reservations CustomerService.delete keeps
CustomerCascade(reservations, customer_id) ==
    Filter(reservations, LAMBDA r : r.customer_id # customer_id)

CustomerService_delete(customer_id) ==
    /\ last = Idle
    /\ LET customers == load_customers(customersFile)
           new_customers == Filter(customers, LAMBDA c : c.id # customer_id)
           reservations == CustomerCascade(load_reservations(reservationsFile),
                                           customer_id)
           args == [NoArgs EXCEPT !.id = customer_id]
       IN  IF Len(new_customers) = Len(customers)
           THEN /\ Completed("CustomerService.delete", args, "false", <<>>)
                /\ UNCHANGED <<hotelsFile, customersFile, reservationsFile,
                               nextId>>
           ELSE /\ reservationsFile' = save_reservations(reservations)
                /\ customersFile' = save_customers(new_customers)
                /\ Completed("CustomerService.delete", args, "true", <<>>)
                /\ UNCHANGED <<hotelsFile, nextId>>

CustomerService_get(customer_id) ==
    /\ last = Idle
    /\ LET c == Find(load_customers(customersFile), customer_id)
           args == [NoArgs EXCEPT !.id = customer_id]
       IN  /\ IF IsNone(c)
              THEN Completed("CustomerService.get", args, "None", <<>>)
              ELSE Completed("CustomerService.get", args, "ok", Val(c).id)
           /\ UNCHANGED <<hotelsFile, customersFile, reservationsFile, nextId>>

\* the replacement CustomerService.update builds for the matching customer
CustomerUpdated(c, name, email) ==
    LET new_name == IF ~IsNone(name) /\ strip(Val(name)) # <<>>
                    THEN strip(Val(name)) ELSE c.name
        new_email == IF ~IsNone(email) /\ strip(Val(email)) # <<>>
                     THEN strip(Val(email)) ELSE c.email
    IN  [id |-> c.id, name |-> new_name, email |-> new_email]

CustomerService_update(customer_id, name, email) ==
    /\ last = Idle
    /\ LET customers == load_customers(customersFile)
           new_customers == [i \in 1..Len(customers) |->
                               IF customers[i].id = customer_id
                               THEN CustomerUpdated(customers[i], name, email)
                               ELSE customers[i]]
           updated == \E i \in 1..Len(customers) : customers[i].id = customer_id
           args == [NoArgs EXCEPT !.id = customer_id, !.name = name,
                                  !.email = email]
       IN  IF ~updated
           THEN /\ Completed("CustomerService.update", args, "None", <<>>)
                /\ UNCHANGED <<hotelsFile, customersFile, reservationsFile,
                               nextId>>
           ELSE /\ customersFile' = save_customers(new_customers)
                /\ Completed("CustomerService.update", args, "ok", customer_id)
                /\ UNCHANGED <<hotelsFile, reservationsFile, nextId>>

(* --------------------------- ReservationService ------------------------ *)

\* a capacity test that lets one more in
CapacityExceeded_OneMore(overlapping, hotel) ==
    Len(overlapping) > hotel.total_rooms

\* a capacity test that stops one short
CapacityExceeded_OneShort(overlapping, hotel) ==
    Len(overlapping) + 1 >= hotel.total_rooms

\* the test ReservationService.create makes before it appends
CapacityExceeded(overlapping, hotel) ==
    Len(overlapping) >= hotel.total_rooms

\* a create that builds the reservation before it looks up the hotel and
\* the customer
ReservationOutcome_BuildFirst(hfile, cfile, rfile, id, customer_id, hotel_id, check_in, check_out) ==
    LET hotel == Find(load_hotels(hfile), hotel_id)
        customer == Find(load_customers(cfile), customer_id)
        new_res == ReservationCreate(id, customer_id, hotel_id,
                                     check_in, check_out)
        overlapping == Filter(load_reservations(rfile),
                              LAMBDA r : r.hotel_id = hotel_id
                                         /\ overlaps(r, new_res.val))
    IN  IF new_res.err # "none" THEN Raise(new_res.err)
        ELSE IF IsNone(hotel) THEN Raise("NotFoundError")
        ELSE IF IsNone(customer) THEN Raise("NotFoundError")
        ELSE IF CapacityExceeded(overlapping, Val(hotel))
             THEN Raise("CapacityExceededError")
        ELSE Ok(new_res.val)

\* How ReservationService.create ends on the given files: the error it
\* raises, or the reservation it appends.  The ValueError messages "Hotel
\* no existe" and "Cliente no existe" are NotFoundError, the one of
\* __post_init__ is ValidationError, "No hay habitaciones disponibles ..."
\* is CapacityExceededError.
ReservationOutcome(hfile, cfile, rfile, id, customer_id, hotel_id, check_in, check_out) ==
    LET hotels == load_hotels(hfile)
        customers == load_customers(cfile)
        hotel == Find(hotels, hotel_id)
        customer == Find(customers, customer_id)
        new_res == ReservationCreate(id, customer_id, hotel_id,
                                     check_in, check_out)
        reservations == load_reservations(rfile)
        overlapping == Filter(reservations,
                              LAMBDA r : r.hotel_id = hotel_id
                                         /\ overlaps(r, new_res.val))
    IN  IF IsNone(hotel) THEN Raise("NotFoundError")
        ELSE IF IsNone(customer) THEN Raise("NotFoundError")
        ELSE IF new_res.err # "none" THEN Raise(new_res.err)
        ELSE IF CapacityExceeded(overlapping, Val(hotel))
             THEN Raise("CapacityExceededError")
        ELSE Ok(new_res.val)

ReservationService_create(customer_id, hotel_id, check_in, check_out) ==
    /\ last = Idle
    /\ LET out == ReservationOutcome(hotelsFile, customersFile,
                                     reservationsFile, _new_id(nextId),
                                     customer_id, hotel_id, check_in, check_out)
           reservations == load_reservations(reservationsFile)
           args == [NoArgs EXCEPT !.customer_id = customer_id,
                                  !.hotel_id = hotel_id,
                                  !.check_in = check_in,
                                  !.check_out = check_out]
       IN  IF out.err # "none"
           THEN /\ Completed("ReservationService.create", args, out.err, <<>>)
                /\ UNCHANGED <<hotelsFile, customersFile, reservationsFile,
                               nextId>>
           ELSE /\ nextId <= MaxIds
                /\ reservationsFile' =
                       save_reservations(Append(reservations, out.val))
                /\ nextId' = nextId + 1
                /\ Completed("ReservationService.create", args, "ok",
                             out.val.id)
                /\ UNCHANGED <<hotelsFile, customersFile>>

\* a cancel that finds nothing to remove
CancelKept_All(reservations, reservation_id) == reservations

\* the reservations ReservationService.cancel keeps
CancelKept(reservations, reservation_id) ==
    Filter(reservations, LAMBDA r : r.id # reservation_id)

ReservationService_cancel(reservation_id) ==
    /\ last = Idle
    /\ LET reservations == load_reservations(reservationsFile)
           new_res == CancelKept(reservations, reservation_id)
           args == [NoArgs EXCEPT !.id = reservation_id]
       IN  IF Len(new_res) = Len(reservations)
           THEN /\ Completed("ReservationService.cancel", args, "false", <<>>)
                /\ UNCHANGED <<hotelsFile, customersFile, reservationsFile,
                               nextId>>
           ELSE /\ reservationsFile' = save_reservations(new_res)
                /\ Completed("ReservationService.cancel", args, "true", <<>>)
                /\ UNCHANGED <<hotelsFile, customersFile, nextId>>

ReservationService_get(reservation_id) ==
    /\ last = Idle
    /\ LET r == Find(load_reservations(reservationsFile), reservation_id)
           args == [NoArgs EXCEPT !.id = reservation_id]
       IN  /\ IF IsNone(r)
              THEN Completed("ReservationService.get", args, "None", <<>>)
              ELSE Completed("ReservationService.get", args, "ok", Val(r).id)
           /\ UNCHANGED <<hotelsFile, customersFile, reservationsFile, nextId>>

(* --------------------------- serialized calls -------------------------- *)

\* The whole system.  Names and e-mails play no part in booking, so a
\* caller passes one padded name, and a well-formed or a malformed e-mail;
\* SpecHotels and SpecCustomers pass them all.  Each call repeats the guard
\* of its action so that it is decided before the arguments are drawn.  A
\* create that names a hotel or a customer that is not stored fails before
\* it looks at the dates: it is given one ordered and one unordered pair.
Next ==
    \/ /\ last = Idle
       /\ \E t \in RoomInputs :
             HotelService_create(<<" ", "a">>, t)
    \/ /\ last = Idle
       /\ \E id \in HotelIds \cup {NoSuchId} :
             HotelService_delete(id)
    \/ /\ last = Idle
       /\ \E id \in HotelIds \cup {NoSuchId} :
             HotelService_get(id)
    \/ /\ last = Idle
       /\ \E id \in HotelIds \cup {NoSuchId}, t \in Opt(RoomInputs) :
             HotelService_update(id, None, t)
    \/ /\ last = Idle
       /\ \E e \in {<<"a", "@", "b">>, <<"a", "@", "b", ".", "c">>} :
             CustomerService_create(<<" ", "a">>, e)
    \/ /\ last = Idle
       /\ \E id \in CustomerIds \cup {NoSuchId} :
             CustomerService_delete(id)
    \/ /\ last = Idle
       /\ \E id \in CustomerIds \cup {NoSuchId} :
             CustomerService_get(id)
    \/ /\ last = Idle
       /\ \E id \in CustomerIds \cup {NoSuchId}, n \in {None, Some(<<" ">>)} :
             CustomerService_update(id, n, None)
    \/ /\ last = Idle
       /\ \E c \in CustomerIds, h \in HotelIds, ci \in Dates, co \in Dates :
             ReservationService_create(c, h, ci, co)
    \/ /\ last = Idle
       /\ \E c \in CustomerIds \cup {NoSuchId},
             h \in HotelIds \cup {NoSuchId}, d \in {<<1, 2>>, <<2, 1>>} :
             /\ c = NoSuchId \/ h = NoSuchId
             /\ ReservationService_create(c, h, d[1], d[2])
    \/ /\ last = Idle
       /\ \E id \in ReservationIds \cup {NoSuchId} :
             ReservationService_cancel(id)
    \/ /\ last = Idle
       /\ \E id \in ReservationIds \cup {NoSuchId} :
             ReservationService_get(id)
    \/ Return

Spec == Init /\ [][Next]_vars

\* HotelService alone, with every name and room count
NextHotels ==
    \/ /\ last = Idle
       /\ \E n \in NameInputs, t \in RoomInputs :
             HotelService_create(n, t)
    \/ /\ last = Idle
       /\ \E id \in HotelIds \cup {NoSuchId} :
             HotelService_delete(id)
    \/ /\ last = Idle
       /\ \E id \in HotelIds \cup {NoSuchId} :
             HotelService_get(id)
    \/ /\ last = Idle
       /\ \E id \in HotelIds \cup {NoSuchId}, n \in Opt(NameInputs),
             t \in Opt(RoomInputs) :
             HotelService_update(id, n, t)
    \/ Return

SpecHotels == Init /\ [][NextHotels]_vars

\* CustomerService alone, with every name and e-mail
NextCustomers ==
    \/ /\ last = Idle
       /\ \E n \in NameInputs, e \in EmailInputs :
             CustomerService_create(n, e)
    \/ /\ last = Idle
       /\ \E id \in CustomerIds \cup {NoSuchId} :
             CustomerService_delete(id)
    \/ /\ last = Idle
       /\ \E id \in CustomerIds \cup {NoSuchId} :
             CustomerService_get(id)
    \/ /\ last = Idle
       /\ \E id \in CustomerIds \cup {NoSuchId}, n \in Opt(NameInputs),
             e \in Opt(EmailInputs) :
             CustomerService_update(id, n, e)
    \/ Return

SpecCustomers == Init /\ [][NextCustomers]_vars

(* ----------------------- the factories on their own -------------------- *)

\* ids a caller may hand to Reservation.create: empty, blank, plain
IdStrings == {<<>>, <<" ">>, <<"\n", " ">>, <<"c">>, <<"h">>}

Reservation_create(customer_id, hotel_id, check_in, check_out) ==
    /\ last = Idle
    /\ LET r == ReservationCreate(_new_id(nextId), customer_id, hotel_id,
                                  check_in, check_out)
           args == [NoArgs EXCEPT !.customer_id = customer_id,
                                  !.hotel_id = hotel_id,
                                  !.check_in = check_in,
                                  !.check_out = check_out]
       IN  /\ Completed("Reservation.create", args,
                        IF r.err = "none" THEN "ok" ELSE r.err, <<>>)
           /\ UNCHANGED <<hotelsFile, customersFile, reservationsFile, nextId>>

\* reservations as Reservation.create makes them, for two hotels and every
\* ordered pair of dates
ValidReservations ==
    {ReservationCreate(_new_id(1), <<"c">>, h, d[1], d[2]).val :
        h \in {<<"g">>, <<"h">>},
        d \in {q \in Dates \X Dates : q[1] < q[2]}}

Truth(b) == IF b THEN "true" ELSE "false"

\* a.overlaps(b), and b.overlaps(a) for the same pair
Reservation_overlaps(a, b) ==
    /\ last = Idle
    /\ Completed("Reservation.overlaps", [self |-> a, other |-> b],
                 Truth(overlaps(a, b)), Truth(overlaps(b, a)))
    /\ UNCHANGED <<hotelsFile, customersFile, reservationsFile, nextId>>

NextModels ==
    \/ last = Idle /\ \E a \in ValidReservations, b \in ValidReservations :
          Reservation_overlaps(a, b)
    \/ last = Idle /\ \E c \in IdStrings, h \in IdStrings, ci \in Dates, co \in Dates :
          Reservation_create(c, h, ci, co)
    \/ Return

SpecModels == Init /\ [][NextModels]_vars

(* ------------------------ the life of a reservation -------------------- *)

\* The calls that add and remove reservations, with the ids of the removed
\* reservations recorded in removed, so that a caller can name a
\* reservation that is no longer stored.  Room counts, names and the
\* length of a stay play no part here: stays are one night long.
NextLifecycle ==
    \/ /\ last = Idle
       /\ HotelService_create(<<" ", "a">>, MaxRooms)
    \/ /\ last = Idle
       /\ \E id \in HotelIds \cup {NoSuchId} :
             HotelService_delete(id)
    \/ /\ last = Idle
       /\ CustomerService_create(<<" ", "a">>, <<"a", "@", "b", ".", "c">>)
    \/ /\ last = Idle
       /\ \E id \in CustomerIds \cup {NoSuchId} :
             CustomerService_delete(id)
    \/ /\ last = Idle
       /\ \E c \in CustomerIds \cup {NoSuchId},
             h \in HotelIds \cup {NoSuchId}, ci \in 1..(MaxDay - 1) :
             ReservationService_create(c, h, ci, ci + 1)
    \/ /\ last = Idle
       /\ \E id \in ReservationIds \cup removed \cup {NoSuchId} :
             ReservationService_cancel(id)
    \/ /\ last = Idle
       /\ \E id \in ReservationIds \cup removed \cup {NoSuchId} :
             ReservationService_get(id)
    \/ ReturnRecorded

SpecLifecycle == Init /\ [][NextLifecycle]_vars

(* --------------------------- concurrent callers ------------------------ *)

\* Several callers share one directory.  Nothing in services.py or
\* storage.py locks a file, so a call of one caller is a sequence of steps,
\* one per load and one per save, and the steps of different callers
\* interleave.

\* the directory the callers start from: one hotel with one room and one
\* customer, as HotelService.create and CustomerService.create store them
InitRace ==
    /\ hotelsFile = save_hotels(<<HotelCreate(_new_id(1), <<"a">>, 1).val>>)
    /\ customersFile =
          save_customers(<<CustomerCreate(_new_id(2), <<"a">>,
                                          <<"a", "@", "b", ".", "c">>).val>>)
    /\ reservationsFile = <<>>
    /\ nextId = 3
    /\ last = Idle
    /\ pre = [hotels |-> <<>>, customers |-> <<>>, reservations |-> <<>>]
    /\ removed = {}
    /\ procs = [p \in Procs |-> NoCall]
    /\ disk = EmptyDir
    /\ storage = Built

Ended(p, op, result) ==
    procs' = [procs EXCEPT ![p] = [@ EXCEPT !.pc = "done", !.op = op,
                                            !.result = result]]

\* ReservationService.create up to the reservation it builds: the loads of
\* hotels and customers, the two lookups, Reservation.create
CreateLookup(p, customer_id, hotel_id, check_in, check_out) ==
    /\ procs[p].pc = "idle"
    /\ LET hotel == Find(load_hotels(hotelsFile), hotel_id)
           customer == Find(load_customers(customersFile), customer_id)
           new_res == ReservationCreate(_new_id(nextId), customer_id,
                                        hotel_id, check_in, check_out)
       IN  IF IsNone(hotel) \/ IsNone(customer)
           THEN Ended(p, "create", "NotFoundError") /\ UNCHANGED nextId
           ELSE IF new_res.err # "none"
           THEN Ended(p, "create", new_res.err) /\ UNCHANGED nextId
           ELSE /\ nextId <= MaxIds
                /\ nextId' = nextId + 1
                /\ procs' = [procs EXCEPT ![p] =
                               [@ EXCEPT !.pc = "built", !.op = "create",
                                         !.hotel = hotel,
                                         !.new_res = Some(new_res.val)]]
    /\ UNCHANGED <<hotelsFile, customersFile, reservationsFile, last, pre,
                   removed, disk, storage>>

\* a create that keeps only the reservation it built
Appended_Alone(reservations, new_res) == <<new_res>>

\* reservations.append(new_res)
Appended(reservations, new_res) == Append(reservations, new_res)

\* ReservationService.create from load_reservations to the append
CreateLoad(p) ==
    /\ procs[p].pc = "built"
    /\ LET new_res == Val(procs[p].new_res)
           reservations == load_reservations(reservationsFile)
           overlapping == Filter(reservations,
                                 LAMBDA r : r.hotel_id = new_res.hotel_id
                                            /\ overlaps(r, new_res))
       IN  IF CapacityExceeded(overlapping, Val(procs[p].hotel))
           THEN Ended(p, "create", "CapacityExceededError")
           ELSE procs' = [procs EXCEPT ![p] =
                            [@ EXCEPT !.pc = "loaded",
                                      !.mem = Appended(reservations, new_res),
                                      !.seen = reservationsFile]]
    /\ UNCHANGED <<hotelsFile, customersFile, reservationsFile, nextId, last,
                   pre, removed, disk, storage>>

\* ReservationService.cancel up to the comparison of the lengths
CancelLoad(p, reservation_id) ==
    /\ procs[p].pc = "idle"
    /\ LET reservations == load_reservations(reservationsFile)
           new_res == CancelKept(reservations, reservation_id)
       IN  IF Len(new_res) = Len(reservations)
           THEN procs' = [procs EXCEPT ![p] =
                            [@ EXCEPT !.pc = "done", !.op = "cancel",
                                      !.id = reservation_id,
                                      !.result = "false"]]
           ELSE procs' = [procs EXCEPT ![p] =
                            [@ EXCEPT !.pc = "loaded", !.op = "cancel",
                                      !.id = reservation_id,
                                      !.mem = new_res,
                                      !.seen = reservationsFile]]
    /\ UNCHANGED <<hotelsFile, customersFile, reservationsFile, nextId, last,
                   pre, removed, disk, storage>>

\* save_reservations of the list in memory, which ends both calls
SaveLoaded(p) ==
    /\ procs[p].pc = "loaded"
    /\ reservationsFile' = save_reservations(procs[p].mem)
    /\ procs' = [procs EXCEPT ![p] =
                   [@ EXCEPT !.pc = "done",
                             !.result = IF procs[p].op = "create" THEN "ok"
                                        ELSE "true",
                             !.stale = procs[p].stale
                                       \/ reservationsFile # procs[p].seen]]
    /\ removed' = IF procs[p].op = "cancel"
                  THEN removed \cup {procs[p].id} ELSE removed
    /\ UNCHANGED <<hotelsFile, customersFile, nextId, last, pre, disk,
                   storage>>

\* the caller takes the result and may call again
Returned(p) ==
    /\ procs[p].pc = "done"
    /\ procs' = [procs EXCEPT ![p] = [NoCall EXCEPT !.stale = procs[p].stale]]
    /\ UNCHANGED <<hotelsFile, customersFile, reservationsFile, nextId, last,
                   pre, removed, disk, storage>>

NextRace ==
    \/ \E p \in Procs, c \in CustomerIds \cup {NoSuchId},
          h \in HotelIds, ci \in 1..(MaxDay - 1) :
          CreateLookup(p, c, h, ci, ci + 1)
    \/ \E p \in Procs : CreateLoad(p)
    \/ \E p \in Procs, id \in ReservationIds \cup {NoSuchId} :
          CancelLoad(p, id)
    \/ \E p \in Procs : SaveLoaded(p)
    \/ \E p \in Procs : Returned(p)

SpecRace == InitRace /\ [][NextRace]_vars

(* ------------------------- the steps of a save ------------------------- *)

\* the sequences of different members of S, none, one or two of them
Lists(S) ==
    {<<>>} \cup {<<x>> : x \in S}
           \cup {q \in {<<x, y>> : x \in S, y \in S} : q[1] # q[2]}

\* entities as the factories make them
SomeHotels ==
    {HotelCreate(_new_id(1), <<"a">>, 1).val,
     HotelCreate(_new_id(2), <<" ", "b">>, MaxRooms).val}

SomeCustomers ==
    {CustomerCreate(_new_id(3), <<"a">>, <<"a", "@", "b", ".", "c">>).val,
     CustomerCreate(_new_id(4), <<"b", " ">>, <<"b", "@", "c", ".", "d">>).val}

SomeReservations ==
    {ReservationCreate(_new_id(5), _new_id(3), _new_id(1), 1, 2).val,
     ReservationCreate(_new_id(6), _new_id(4), _new_id(2), 2, MaxDay).val}

\* the collections a caller saves
ToSave(kind) ==
    IF kind = "hotels" THEN Lists(SomeHotels)
    ELSE IF kind = "customers" THEN Lists(SomeCustomers)
    ELSE Lists(SomeReservations)

StorageOnly ==
    UNCHANGED <<hotelsFile, customersFile, reservationsFile, nextId, last,
                pre, removed, procs>>

\* tempfile.mkstemp: the temporary file is there and empty, or the call
\* raises before the try block is entered.  disk.tmp is the temporary file
\* of this dump: mkstemp picks a name that no file has.
Mkstemp(kind, entities, ok) ==
    /\ storage.built
    /\ storage.pc = "idle"
    /\ storage' = [storage EXCEPT !.pc = IF ok THEN "created" ELSE "raised",
                                  !.kind = kind, !.entities = entities,
                                  !.old = disk[kind], !.raised = ~ok]
    /\ disk' = [disk EXCEPT !.tmp = IF ok THEN Text("empty") ELSE Absent]
    /\ StorageOnly

\* json.dump into the temporary file: all of the array, or an error that
\* leaves whatever had reached the file, nothing or a part of the text
WriteTemp(ok, part) ==
    /\ storage.pc = "created"
    /\ IF ok
       THEN /\ disk' = [disk EXCEPT
                          !.tmp = Array(Dicts(storage.kind, storage.entities))]
            /\ storage' = [storage EXCEPT !.pc = "written"]
       ELSE /\ disk' = [disk EXCEPT !.tmp = Text(part)]
            /\ storage' = [storage EXCEPT !.pc = "finally", !.raised = TRUE]
    /\ StorageOnly

\* os.replace(tmp_name, path): the rename puts the temporary file in the
\* place of the target in one step
Replaced(d, kind) == [d EXCEPT ![kind] = d.tmp, !.tmp = Absent]

Replace(ok) ==
    /\ storage.pc = "written"
    /\ IF ok
       THEN /\ disk' = Replaced(disk, storage.kind)
            /\ storage' = [storage EXCEPT !.pc = "finally"]
       ELSE /\ disk' = disk
            /\ storage' = [storage EXCEPT !.pc = "finally", !.raised = TRUE]
    /\ StorageOnly

\* the finally block: os.remove of the temporary file if it is there; an
\* OSError of the removal is passed over.  Then the call returns, or the
\* error of the step that failed goes on to the caller.
Finally(ok) ==
    /\ storage.pc = "finally"
    /\ disk' = IF ok THEN [disk EXCEPT !.tmp = Absent] ELSE disk
    /\ storage' = [storage EXCEPT
                     !.pc = IF storage.raised THEN "raised" ELSE "returned"]
    /\ StorageOnly

\* the process is stopped between two steps; nothing of the call runs
\* after that
Crash ==
    /\ storage.pc \in {"created", "written", "finally"}
    /\ storage' = [storage EXCEPT !.pc = "crashed"]
    /\ UNCHANGED disk
    /\ StorageOnly

\* the caller, or the next process, goes on
DumpOver ==
    /\ storage.pc \in {"returned", "raised", "crashed"}
    /\ storage' = Built
    /\ UNCHANGED disk
    /\ StorageOnly

NextDump ==
    \/ \E kind \in Kinds, ok \in BOOLEAN :
          \E entities \in ToSave(kind) : Mkstemp(kind, entities, ok)
    \/ \E ok \in BOOLEAN, part \in {"empty", "invalid"} : WriteTemp(ok, part)
    \/ \E ok \in BOOLEAN : Replace(ok)
    \/ \E ok \in BOOLEAN : Finally(ok)
    \/ Crash
    \/ DumpOver

SpecDump == Init /\ [][NextDump]_vars

(* ------------------------ the storage on its own ----------------------- *)

\* What a file may hold that JsonStorage did not write: hotels.json with
\* a whole object, with {"id": "x"} as in test_invalid_object_skipped, with
\* an object without id or without name, and with an item that is no
\* object.
HotelItems ==
    {[id |-> <<"1">>, name |-> <<"a">>, total_rooms |-> 1],
     [id |-> <<"x">>],
     [name |-> <<"a">>, total_rooms |-> 1],
     [id |-> <<"2">>, total_rooms |-> 1],
     [scalar |-> 0]}

CustomerItems ==
    {[id |-> <<"1">>, name |-> <<"a">>, email |-> <<"a", "@", "b", ".", "c">>],
     [id |-> <<"2">>, name |-> <<"a">>],
     [scalar |-> 0]}

\* reservations.json with a whole object, with one whose check_in is the
\* 31st of June, with one of no nights, and with one without check_out
ReservationItems ==
    {[id |-> <<"1">>, customer_id |-> <<"2">>, hotel_id |-> <<"3">>,
      check_in |-> <<2024, 6, 1>>, check_out |-> <<2024, 6, 2>>],
     [id |-> <<"4">>, customer_id |-> <<"2">>, hotel_id |-> <<"3">>,
      check_in |-> <<2024, 6, 31>>, check_out |-> <<2024, 6, 2>>],
     [id |-> <<"5">>, customer_id |-> <<"2">>, hotel_id |-> <<"3">>,
      check_in |-> <<2024, 6, 2>>, check_out |-> <<2024, 6, 2>>],
     [id |-> <<"6">>, customer_id |-> <<"2">>, hotel_id |-> <<"3">>,
      check_in |-> <<2024, 6, 1>>]}

Items(kind) ==
    IF kind = "hotels" THEN HotelItems
    ELSE IF kind = "customers" THEN CustomerItems
    ELSE ReservationItems

\* the contents of a file that is there
Contents(kind) ==
    {Text(t) : t \in {"empty", "blank", "invalid", "object"}}
       \cup {Array(a) : a \in UNION {[1..n -> Items(kind)] : n \in 0..MaxItems}}

\* A storage root before JsonStorage is constructed on it: one of the
\* collection files is missing or holds any of the contents above, each of
\* the other two is missing or an empty array.
InitStorage ==
    /\ \E kind \in Kinds, rest \in [Kinds -> {Absent, Array(<<>>)}] :
       \E raw \in Contents(kind) \cup {Absent} :
          disk = [hotels |-> IF kind = "hotels" THEN raw ELSE rest["hotels"],
                  customers |-> IF kind = "customers" THEN raw
                                ELSE rest["customers"],
                  reservations |-> IF kind = "reservations" THEN raw
                                   ELSE rest["reservations"],
                  tmp |-> Absent]
    /\ storage = [Built EXCEPT !.built = FALSE]
    /\ hotelsFile = <<>>
    /\ customersFile = <<>>
    /\ reservationsFile = <<>>
    /\ nextId = 1
    /\ last = Idle
    /\ pre = [hotels |-> <<>>, customers |-> <<>>, reservations |-> <<>>]
    /\ removed = {}
    /\ procs = [p \in Procs |-> NoCall]

\* the completed call of the storage, and the directory it started from
StorageCall(op, kind, entities, result, ret) ==
    /\ last' = [op |-> op,
                args |-> [kind |-> kind, entities |-> entities,
                          before |-> disk],
                result |-> result, ret |-> ret]
    /\ UNCHANGED <<hotelsFile, customersFile, reservationsFile, nextId, pre,
                   removed, procs>>

\* a constructor that writes every file anew
Created_Anew(raw) == Array(<<>>)

\* if not f.exists(): f.write_text("[]")
Created(raw) == IF raw = Absent THEN Array(<<>>) ELSE raw

JsonStorage_init ==
    /\ last = Idle
    /\ disk' = [hotels |-> Created(disk.hotels),
                customers |-> Created(disk.customers),
                reservations |-> Created(disk.reservations),
                tmp |-> disk.tmp]
    /\ storage' = [storage EXCEPT !.built = TRUE]
    /\ StorageCall("JsonStorage", "none", <<>>, "ok", <<>>)

\* load_hotels, load_customers or load_reservations
JsonStorage_load(kind) ==
    /\ last = Idle
    /\ storage.built
    /\ LET out == Load(kind, disk[kind])
       IN  StorageCall("load", kind, <<>>,
                       IF out.err = "none" THEN "ok" ELSE out.err, out.val)
    /\ UNCHANGED <<disk, storage>>

\* save_hotels, save_customers or save_reservations when no step of
\* _safe_dump fails: the array is written to the temporary file, which
\* takes the place of the target
JsonStorage_save(kind, entities) ==
    /\ last = Idle
    /\ storage.built
    /\ disk' = Replaced([disk EXCEPT !.tmp = Array(Dicts(kind, entities))],
                        kind)
    /\ StorageCall("save", kind, entities, "ok", <<>>)
    /\ UNCHANGED storage

\* somebody removes a collection file from the directory
Unlink(kind) ==
    /\ last = Idle
    /\ storage.built
    /\ disk[kind] # Absent
    /\ disk' = [disk EXCEPT ![kind] = Absent]
    /\ UNCHANGED <<hotelsFile, customersFile, reservationsFile, nextId, last,
                   pre, removed, procs, storage>>

\* A caller saves one of the collections above, or the collection it has
\* just loaded.
NextStorage ==
    \/ JsonStorage_init
    \/ \E kind \in Kinds : JsonStorage_load(kind)
    \/ \E kind \in Kinds :
          \E entities \in ToSave(kind) \cup {Load(kind, disk[kind]).val} :
             JsonStorage_save(kind, entities)
    \/ \E kind \in Kinds : Unlink(kind)
    \/ Return

SpecStorage == InitStorage /\ [][NextStorage]_vars

(* ------------------------ the steps of a delete ------------------------ *)

\* a caller inside HotelService.delete or CustomerService.delete: the id it
\* deletes and the parents it keeps (new_hotels, new_customers)
Deleting(op, id, parents, stale) ==
    [pc |-> "found", op |-> op, id |-> id, hotel |-> None, new_res |-> None,
     mem |-> <<>>, seen |-> <<>>, result |-> "none", stale |-> stale,
     parents |-> parents]

\* the two deletes that cascade
Deletes == {"HotelService.delete", "CustomerService.delete"}

\* a delete that saves the parents before the reservations
CascadeOrder_ParentFirst == <<"parent", "reservations">>

\* the order of the two saves of a delete
CascadeOrder == <<"reservations", "parent">>

\* a delete up to the comparison of the lengths: the load of the parents
\* and the filter
DeleteLookup(p, op, id) ==
    /\ procs[p].pc = "idle"
    /\ LET parents == IF op = "HotelService.delete"
                      THEN load_hotels(hotelsFile)
                      ELSE load_customers(customersFile)
           new_parents == Filter(parents, LAMBDA x : x.id # id)
       IN  IF Len(new_parents) = Len(parents)
           THEN procs' = [procs EXCEPT ![p] =
                            [@ EXCEPT !.pc = "done", !.op = op, !.id = id,
                                      !.result = "false"]]
           ELSE procs' = [procs EXCEPT ![p] =
                            Deleting(op, id, new_parents, procs[p].stale)]
    /\ pre' = Files
    /\ UNCHANGED <<hotelsFile, customersFile, reservationsFile, nextId, last,
                   removed, disk, storage>>

\* load_reservations and the filter of the cascade
DeleteLoad(p) ==
    /\ procs[p].pc = "found"
    /\ LET reservations == load_reservations(reservationsFile)
       IN  procs' = [procs EXCEPT ![p] =
                       [@ EXCEPT !.pc = "filtered",
                                 !.mem = IF procs[p].op = "HotelService.delete"
                                         THEN HotelCascade(reservations,
                                                           procs[p].id)
                                         ELSE CustomerCascade(reservations,
                                                              procs[p].id),
                                 !.seen = reservationsFile]]
    /\ UNCHANGED <<hotelsFile, customersFile, reservationsFile, nextId, last,
                   pre, removed, disk, storage>>

\* one of the two saves of a delete; the second ends the call
DeleteSave(p) ==
    /\ procs[p].pc \in {"filtered", "between"}
    /\ LET first == procs[p].pc = "filtered"
           which == CascadeOrder[IF first THEN 1 ELSE 2]
       IN  /\ IF which = "reservations"
              THEN /\ reservationsFile' = save_reservations(procs[p].mem)
                   /\ UNCHANGED <<hotelsFile, customersFile>>
              ELSE IF procs[p].op = "HotelService.delete"
              THEN /\ hotelsFile' = save_hotels(procs[p].parents)
                   /\ UNCHANGED <<customersFile, reservationsFile>>
              ELSE /\ customersFile' = save_customers(procs[p].parents)
                   /\ UNCHANGED <<hotelsFile, reservationsFile>>
           /\ procs' = [procs EXCEPT ![p] =
                          [@ EXCEPT !.pc = IF first THEN "between" ELSE "done",
                                    !.result = IF first THEN "none"
                                               ELSE "true",
                                    !.stale =
                                        procs[p].stale
                                        \/ (/\ which = "reservations"
                                            /\ reservationsFile
                                                  # procs[p].seen)]]
    /\ UNCHANGED <<nextId, last, pre, removed, disk, storage>>

\* a delete that ends between two of its steps: a load or a save raised,
\* or the process stopped
DeleteStopped(p) ==
    /\ procs[p].pc \in {"found", "filtered", "between"}
    /\ procs' = [procs EXCEPT ![p] =
                   [@ EXCEPT !.result = IF procs[p].pc = "between"
                                        THEN "stopped between the saves"
                                        ELSE "stopped",
                             !.pc = "done"]]
    /\ UNCHANGED <<hotelsFile, customersFile, reservationsFile, nextId, last,
                   pre, removed, disk, storage>>

\* a create of one caller and the deletes of another on the directory of
\* InitRace, interleaved between their loads and saves
NextOrphan ==
    \/ \E p \in Procs, c \in CustomerIds \cup {NoSuchId},
          h \in HotelIds, ci \in 1..(MaxDay - 1) :
          CreateLookup(p, c, h, ci, ci + 1)
    \/ \E p \in Procs : CreateLoad(p)
    \/ \E p \in Procs : procs[p].op = "create" /\ SaveLoaded(p)
    \/ \E p \in Procs, op \in Deletes :
          \E id \in (IF op = "HotelService.delete" THEN HotelIds
                     ELSE CustomerIds) \cup {NoSuchId} :
              DeleteLookup(p, op, id)
    \/ \E p \in Procs : DeleteLoad(p)
    \/ \E p \in Procs : DeleteSave(p)
    \/ \E p \in Procs : Returned(p)

SpecOrphan == InitRace /\ [][NextOrphan]_vars

\* two hotels and two customers, and the reservations of any two of the
\* four pairs of them for the same night
CascadeReservations ==
    {ReservationCreate(_new_id(2 + 2 * h + c), _new_id(2 + c), _new_id(h),
                       1, 2).val : h \in {1, 2}, c \in {1, 2}}

InitCascade ==
    /\ hotelsFile = save_hotels(<<HotelCreate(_new_id(1), <<"a">>, 2).val,
                                  HotelCreate(_new_id(2), <<"b">>, 2).val>>)
    /\ customersFile =
          save_customers(
              <<CustomerCreate(_new_id(3), <<"a">>,
                               <<"a", "@", "b", ".", "c">>).val,
                CustomerCreate(_new_id(4), <<"b">>,
                               <<"a", "@", "b", ".", "c">>).val>>)
    /\ reservationsFile \in
          {save_reservations(rs) : rs \in Lists(CascadeReservations)}
    /\ nextId = 9
    /\ last = Idle
    /\ pre = [hotels |-> <<>>, customers |-> <<>>, reservations |-> <<>>]
    /\ removed = {}
    /\ procs = [p \in Procs |-> NoCall]
    /\ disk = EmptyDir
    /\ storage = Built

\* the caller has the directory to itself
Alone(p) == \A q \in Procs \ {p} : procs[q].pc = "idle"

\* deletes made one after another, each of which may stop part way
NextCascade ==
    \/ \E p \in Procs, op \in Deletes :
          \E id \in (IF op = "HotelService.delete" THEN HotelIds
                     ELSE CustomerIds) \cup {NoSuchId} :
              Alone(p) /\ DeleteLookup(p, op, id)
    \/ \E p \in Procs : DeleteLoad(p)
    \/ \E p \in Procs : DeleteSave(p)
    \/ \E p \in Procs : DeleteStopped(p)
    \/ \E p \in Procs : Returned(p)

SpecCascade == InitCascade /\ [][NextCascade]_vars

(* ---------------------- files with malformed records ------------------ *)

\* the items of the collection file of a kind
FileOf(kind) ==
    IF kind = "hotels" THEN hotelsFile
    ELSE IF kind = "customers" THEN customersFile
    ELSE reservationsFile

\* load_* of the kind raises KeyError: an item lacks a key that the loop
\* subscripts, and the except clause does not name KeyError
Unreadable(kind) == Load(kind, Array(FileOf(kind))).err = "KeyError"

\* a load that skips the records without a key as it skips the other
\* malformed ones, so that the call goes on
Loading_Tolerant(op, args, kind, Call) == Call

\* a service call from the load_* of a kind on: the KeyError of the load
\* ends the call before anything is saved
Loading(op, args, kind, Call) ==
    IF Unreadable(kind)
    THEN /\ Completed(op, args, "KeyError", <<>>)
         /\ UNCHANGED <<hotelsFile, customersFile, reservationsFile, nextId>>
    ELSE Call

\* a hotel as saved, one without total_rooms (int(None) is a TypeError,
\* the record is skipped) and one without id (a KeyError)
PurgeHotels ==
    {save_hotels(<<HotelCreate(_new_id(1), <<"a">>, 1).val>>)[1],
     [id |-> _new_id(7), name |-> <<"a">>],
     [name |-> <<"a">>, total_rooms |-> 1]}

\* a customer as saved, an item that is no object (a TypeError, skipped)
\* and a customer without email (a KeyError)
PurgeCustomers ==
    {save_customers(<<CustomerCreate(_new_id(2), <<"a">>,
                                     <<"a", "@", "b", ".", "c">>).val>>)[1],
     [scalar |-> 0],
     [id |-> _new_id(8), name |-> <<"a">>]}

\* a reservation as saved, one whose check_out is its check_in (the
\* ValueError of __post_init__, skipped) and one without check_out (a
\* KeyError)
PurgeReservations ==
    {save_reservations(<<ReservationCreate(_new_id(3), _new_id(2),
                                           _new_id(1), 1, 2).val>>)[1],
     [id |-> _new_id(9), customer_id |-> _new_id(2), hotel_id |-> _new_id(1),
      check_in |-> date_to_iso(1), check_out |-> date_to_iso(1)],
     [id |-> _new_id(9), customer_id |-> _new_id(2), hotel_id |-> _new_id(1),
      check_in |-> date_to_iso(1)]}

\* a directory whose files hold up to two of these items each
InitPurge ==
    /\ hotelsFile \in Lists(PurgeHotels)
    /\ customersFile \in Lists(PurgeCustomers)
    /\ reservationsFile \in Lists(PurgeReservations)
    /\ nextId = 4
    /\ last = Idle
    /\ pre = [hotels |-> <<>>, customers |-> <<>>, reservations |-> <<>>]
    /\ removed = {}
    /\ procs = [p \in Procs |-> NoCall]
    /\ disk = EmptyDir
    /\ storage = Built

\* the calls that save, one after another.  A delete loads the
\* reservations once it has found its parent; ReservationService.create
\* loads them once the hotel and the customer are found and the dates are
\* in order.
NextPurge ==
    \/ /\ last = Idle
       /\ \E n \in {<<>>, <<"b">>} :
             Loading("HotelService.create",
                     [NoArgs EXCEPT !.name = Some(n), !.total_rooms = Some(1)],
                     "hotels", HotelService_create(n, 1))
    \/ /\ last = Idle
       /\ \E id \in HotelIds \cup {NoSuchId} :
             Loading("HotelService.delete", [NoArgs EXCEPT !.id = id],
                     "hotels",
                     IF id \in HotelIds
                     THEN Loading("HotelService.delete",
                                  [NoArgs EXCEPT !.id = id], "reservations",
                                  HotelService_delete(id))
                     ELSE HotelService_delete(id))
    \/ /\ last = Idle
       /\ \E id \in HotelIds \cup {NoSuchId} :
             Loading("HotelService.update",
                     [NoArgs EXCEPT !.id = id, !.name = Some(<<"b">>)],
                     "hotels", HotelService_update(id, Some(<<"b">>), None))
    \/ /\ last = Idle
       /\ \E e \in {<<"a", "@", "b">>, <<"a", "@", "b", ".", "c">>} :
             Loading("CustomerService.create",
                     [NoArgs EXCEPT !.name = Some(<<"b">>), !.email = Some(e)],
                     "customers", CustomerService_create(<<"b">>, e))
    \/ /\ last = Idle
       /\ \E id \in CustomerIds \cup {NoSuchId} :
             Loading("CustomerService.delete", [NoArgs EXCEPT !.id = id],
                     "customers",
                     IF id \in CustomerIds
                     THEN Loading("CustomerService.delete",
                                  [NoArgs EXCEPT !.id = id], "reservations",
                                  CustomerService_delete(id))
                     ELSE CustomerService_delete(id))
    \/ /\ last = Idle
       /\ \E id \in CustomerIds \cup {NoSuchId} :
             Loading("CustomerService.update",
                     [NoArgs EXCEPT !.id = id, !.name = Some(<<"b">>)],
                     "customers",
                     CustomerService_update(id, Some(<<"b">>), None))
    \/ /\ last = Idle
       /\ \E c \in CustomerIds \cup {NoSuchId},
             h \in HotelIds \cup {NoSuchId}, d \in {<<1, 2>>, <<2, 1>>} :
             LET args == [NoArgs EXCEPT !.customer_id = c, !.hotel_id = h,
                                        !.check_in = d[1], !.check_out = d[2]]
                 call == ReservationService_create(c, h, d[1], d[2])
             IN  Loading("ReservationService.create", args, "hotels",
                     Loading("ReservationService.create", args, "customers",
                         IF c \in CustomerIds /\ h \in HotelIds /\ d[1] < d[2]
                         THEN Loading("ReservationService.create", args,
                                      "reservations", call)
                         ELSE call))
    \/ /\ last = Idle
       /\ \E id \in ReservationIds \cup {NoSuchId} :
             Loading("ReservationService.cancel", [NoArgs EXCEPT !.id = id],
                     "reservations", ReservationService_cancel(id))
    \/ Return

SpecPurge == InitPurge /\ [][NextPurge]_vars

(* ------------------------- views used by the claims -------------------- *)

Hotels == load_hotels(hotelsFile)
Customers == load_customers(customersFile)
Reservations == load_reservations(reservationsFile)

PreHotels == load_hotels(pre.hotels)
PreCustomers == load_customers(pre.customers)
PreReservations == load_reservations(pre.reservations)

\* the reservations of rs that belong to hotel id
OfHotel(rs, id) == SelectSeq(rs, LAMBDA r : r.hotel_id = id)

\* how many reservations of rs for hotel id cover the night of date d
Covering(rs, id, d) ==
    Cardinality({i \in 1..Len(rs) :
                    /\ rs[i].hotel_id = id
                    /\ rs[i].check_in <= d /\ d < rs[i].check_out})

\* [a1, a2) and [b1, b2) have a night in common
SharesNight(a1, a2, b1, b2) ==
    \E d \in Dates : a1 <= d /\ d < a2 /\ b1 <= d /\ d < b2

\* the completed call is a ReservationService.create whose hotel and
\* customer were stored when it started
BookingCall ==
    /\ last.op = "ReservationService.create"
    /\ \E h \in Range(PreHotels) : h.id = last.args.hotel_id
    /\ \E c \in Range(PreCustomers) : c.id = last.args.customer_id

\* the hotel a BookingCall names
BookedHotel ==
    CHOOSE h \in Range(PreHotels) : h.id = last.args.hotel_id

\* the stored reservations of that hotel that share a night with the
\* requested range
Clashing ==
    SelectSeq(OfHotel(PreReservations, last.args.hotel_id),
              LAMBDA r : SharesNight(r.check_in, r.check_out,
                                     last.args.check_in, last.args.check_out))

\* the completed create appended the reservation it was asked for
Booked ==
    /\ last.result = "ok"
    /\ Reservations =
          Append(PreReservations,
                 [id |-> last.ret, customer_id |-> last.args.customer_id,
                  hotel_id |-> last.args.hotel_id,
                  check_in |-> last.args.check_in,
                  check_out |-> last.args.check_out])
    /\ \A r \in Range(PreReservations) : r.id # last.ret

FilesUntouched ==
    /\ hotelsFile = pre.hotels
    /\ customersFile = pre.customers
    /\ reservationsFile = pre.reservations

(* -------------------------------- claims ------------------------------- *)

\* C1: in every reachable state, for every stored hotel and every date,
\* the number of stored reservations of that hotel covering the date is at
\* most the hotel's total_rooms.
C1_CapacityInvariant ==
    \A h \in Range(Hotels), d \in Dates :
        Covering(Reservations, h.id, d) <= h.total_rooms

\* C2: after every completed service operation each stored reservation's
\* hotel_id is the id of a stored hotel and its customer_id the id of a
\* stored customer.
C2_ReferentialInvariant ==
    \A r \in Range(Reservations) :
        /\ \E h \in Range(Hotels) : h.id = r.hotel_id
        /\ \E c \in Range(Customers) : c.id = r.customer_id

\* a hotel delete that took the hotel's two reservations with it
C2_Witness ==
    /\ last.op = "HotelService.delete"
    /\ last.result = "true"
    /\ Len(PreReservations) = 2
    /\ Len(Reservations) = 0

\* C3: when a hotel with total_rooms = N holds N reservations, a create for
\* it (existing customer, check_in < check_out) whose range overlaps all N
\* fails with the capacity error and leaves the reservations collection as
\* it was.
C3_FullHotelRejects ==
    (/\ BookingCall
     /\ last.args.check_in < last.args.check_out
     /\ Len(OfHotel(PreReservations, last.args.hotel_id))
           = BookedHotel.total_rooms
     /\ Len(Clashing) = BookedHotel.total_rooms)
    => /\ last.result = "CapacityExceededError"
       /\ reservationsFile = pre.reservations

\* a third booking refused by a two-room hotel that holds two
C3_Witness ==
    /\ BookingCall
    /\ last.args.check_in < last.args.check_out
    /\ BookedHotel.total_rooms = 2
    /\ Len(OfHotel(PreReservations, last.args.hotel_id)) = 2
    /\ Len(Clashing) = 2
    /\ last.result = "CapacityExceededError"

\* C4 as stated: if on every date of the requested range fewer than
\* total_rooms stored reservations of the hotel cover that date (hotel,
\* customer and dates valid), create succeeds and stores the reservation.
C4_PerNightAvailability ==
    (/\ BookingCall
     /\ last.args.check_in < last.args.check_out
     /\ \A d \in Dates :
           (last.args.check_in <= d /\ d < last.args.check_out)
           => Covering(PreReservations, last.args.hotel_id, d)
                 < BookedHotel.total_rooms)
    => Booked

\* C4 amended: if fewer than total_rooms stored reservations of the hotel
\* share a night with the requested range (hotel, customer and dates
\* valid), create succeeds and stores the reservation; it fails with the
\* capacity error only when at least total_rooms of them do.
C4_OverlapAvailability ==
    /\ (/\ BookingCall
        /\ last.args.check_in < last.args.check_out
        /\ Len(Clashing) < BookedHotel.total_rooms)
       => Booked
    /\ (last.op = "ReservationService.create"
        /\ last.result = "CapacityExceededError")
       => (BookingCall /\ Len(Clashing) >= BookedHotel.total_rooms)

\* a booking accepted next to one it shares a night with
C4_Witness ==
    /\ BookingCall
    /\ Len(Clashing) = 1
    /\ BookedHotel.total_rooms = 2
    /\ Booked

\* C5: for a hotel with total_rooms = 1 holding one reservation [a, b), a
\* create for [c, d) with an existing customer succeeds exactly when
\* NOT (max(a, c) < min(b, d)): it succeeds when c = b or d = a and fails
\* with the capacity error when the ranges share a night.
C5_HalfOpenBoundary ==
    (/\ BookingCall
     /\ last.args.check_in < last.args.check_out
     /\ BookedHotel.total_rooms = 1
     /\ Len(OfHotel(PreReservations, last.args.hotel_id)) = 1)
    => LET r == OfHotel(PreReservations, last.args.hotel_id)[1]
           a == r.check_in
           b == r.check_out
           c == last.args.check_in
           d == last.args.check_out
       IN  /\ Booked <=> ~(Max(a, c) < Min(b, d))
           /\ last.result \in {"ok", "CapacityExceededError"}
           /\ (c = b \/ d = a) => Booked
           /\ SharesNight(a, b, c, d)
                 => /\ last.result = "CapacityExceededError"
                    /\ reservationsFile = pre.reservations

\* a check-in accepted on the day of the other stay's check-out
C5_Witness ==
    /\ BookingCall
    /\ BookedHotel.total_rooms = 1
    /\ Len(OfHotel(PreReservations, last.args.hotel_id)) = 1
    /\ last.args.check_in
          = OfHotel(PreReservations, last.args.hotel_id)[1].check_out
    /\ Booked

\* C6: ReservationService.create fails with NotFoundError whenever hotel_id
\* matches no stored hotel or customer_id matches no stored customer,
\* whatever the dates and the occupancy, and writes none of the three
\* collections.
C6_NotFoundFirst ==
    (/\ last.op = "ReservationService.create"
     /\ \/ \A h \in Range(PreHotels) : h.id # last.args.hotel_id
        \/ \A c \in Range(PreCustomers) : c.id # last.args.customer_id)
    => /\ last.result = "NotFoundError"
       /\ FilesUntouched

\* an unknown customer reported for a full hotel and an unordered range
C6_Witness ==
    /\ last.op = "ReservationService.create"
    /\ last.result = "NotFoundError"
    /\ last.args.check_in >= last.args.check_out
    /\ \E h \in Range(PreHotels) :
          /\ h.id = last.args.hotel_id
          /\ Len(OfHotel(PreReservations, h.id)) >= h.total_rooms
    /\ \A c \in Range(PreCustomers) : c.id # last.args.customer_id

\* C7: with check_in >= check_out, Reservation.create fails with
\* ValidationError, and so does ReservationService.create for an existing
\* hotel and customer, leaving the reservations collection unchanged.
C7_UnorderedDatesRejected ==
    /\ \A ci \in Dates, co \in Dates :
          ci >= co
          => ReservationCreate(_new_id(nextId), <<"c">>, <<"h">>, ci, co).err
                = "ValidationError"
    /\ (BookingCall /\ last.args.check_in >= last.args.check_out)
       => /\ last.result = "ValidationError"
          /\ reservationsFile = pre.reservations

\* a zero-night stay refused for a hotel that has a free room
C7_Witness ==
    /\ BookingCall
    /\ last.args.check_in = last.args.check_out
    /\ Len(OfHotel(PreReservations, last.args.hotel_id))
          < BookedHotel.total_rooms
    /\ last.result = "ValidationError"

\* C8: Reservation.create fails with ValidationError whenever customer_id
\* or hotel_id is empty or blank, whatever the dates.
C8_BlankIdsRejected ==
    (/\ last.op = "Reservation.create"
     /\ \/ strip(last.args.customer_id) = <<>>
        \/ strip(last.args.hotel_id) = <<>>)
    => last.result = "ValidationError"

\* C9: every stored customer's email has the local@domain.tld shape, and a
\* CustomerService.update given a non-empty email that fails the shape
\* check keeps the previous email.
C9_EmailInvariant ==
    /\ \A c \in Range(Customers) : EmailShape(c.email)
    /\ (/\ last.op = "CustomerService.update"
        /\ last.result = "ok"
        /\ ~IsNone(last.args.email)
        /\ Val(last.args.email) # <<>>
        /\ ~EMAIL_RE(Val(last.args.email)))
       => \A c \in Range(Customers) :
             c.id = last.args.id
             => \E p \in Range(PreCustomers) :
                   p.id = c.id /\ p.email = c.email

\* C10: Hotel.create fails with ValidationError if name is empty or blank or
\* total_rooms <= 0, and every stored hotel has total_rooms > 0 and a
\* non-empty name with no leading or trailing whitespace.
C10_HotelFields ==
    /\ \A h \in Range(Hotels) :
          /\ h.total_rooms > 0
          /\ h.name # <<>>
          /\ Head(h.name) \notin Whitespace
          /\ h.name[Len(h.name)] \notin Whitespace
    /\ (/\ last.op = "HotelService.create"
        /\ \/ strip(Val(last.args.name)) = <<>>
           \/ Val(last.args.total_rooms) <= 0)
       => /\ last.result = "ValidationError"
          /\ hotelsFile = pre.hotels

\* an update of a stored hotel given a blank name and a room count of zero
C10_Witness ==
    /\ last.op = "HotelService.update"
    /\ last.result = "ok"
    /\ last.args.name = Some(<<" ">>)
    /\ last.args.total_rooms = Some(0)
    /\ Hotels # <<>>

\* C11: HotelService.update on a stored hotel returns and stores a hotel
\* with the same id, whose name is the given name trimmed when that is a
\* non-blank string and the previous name otherwise, and whose total_rooms
\* is the given value when that is an integer above zero and the previous
\* value otherwise; the collection keeps its length and order and every
\* other record; when no hotel has the id the call returns None and writes
\* nothing.
C11_UpdateFunctional ==
    last.op = "HotelService.update"
    => IF \E p \in Range(PreHotels) : p.id = last.args.id
       THEN /\ last.result = "ok"
            /\ last.ret = last.args.id
            /\ Len(Hotels) = Len(PreHotels)
            /\ \A i \in 1..Len(PreHotels) :
                  IF PreHotels[i].id = last.args.id
                  THEN /\ Hotels[i].id = last.args.id
                       /\ Hotels[i].name =
                            IF /\ ~IsNone(last.args.name)
                               /\ strip(Val(last.args.name)) # <<>>
                            THEN strip(Val(last.args.name))
                            ELSE PreHotels[i].name
                       /\ Hotels[i].total_rooms =
                            IF /\ ~IsNone(last.args.total_rooms)
                               /\ Val(last.args.total_rooms) > 0
                            THEN Val(last.args.total_rooms)
                            ELSE PreHotels[i].total_rooms
                  ELSE Hotels[i] = PreHotels[i]
            /\ customersFile = pre.customers
            /\ reservationsFile = pre.reservations
       ELSE /\ last.result = "None"
            /\ FilesUntouched

\* the first of two stored hotels is given a padded name and another room
\* count, and both change
C11_Witness ==
    /\ last.op = "HotelService.update"
    /\ last.result = "ok"
    /\ last.args.name = Some(<<" ", "a">>)
    /\ last.args.total_rooms = Some(MaxRooms)
    /\ Len(PreHotels) = 2
    /\ PreHotels[1].id = last.args.id
    /\ PreHotels[1].name # <<"a">>
    /\ PreHotels[1].total_rooms # MaxRooms

C13_DoubleCancel ==
    last.op = "ReservationService.cancel"
    => /\ IF \E p \in Range(PreReservations) : p.id = last.args.id
          THEN /\ last.result = "true"
               /\ Len(Reservations) = Len(PreReservations) - 1
               /\ Reservations =
                     SelectSeq(PreReservations,
                               LAMBDA r : r.id # last.args.id)
               /\ hotelsFile = pre.hotels
               /\ customersFile = pre.customers
          ELSE /\ last.result = "false"
               /\ FilesUntouched
       /\ last.args.id \in removed
          => /\ last.result = "false"
             /\ FilesUntouched

\* a reservation already cancelled is cancelled a second time while
\* another reservation is stored
C13_Witness ==
    /\ last.op = "ReservationService.cancel"
    /\ last.args.id \in removed
    /\ last.result = "false"
    /\ Reservations # <<>>

\* C14: under serialized calls a reservation that a create returned is
\* stored, and get returns it, in every later state until a cancel of its
\* id or a delete of its hotel or of its customer removes it; a
\* reservation once removed is never stored again.
C14_Lifecycle ==
    /\ (last.op = "ReservationService.create" /\ last.result = "ok")
       => \E r \in Range(Reservations) : r.id = last.ret
    /\ \A p \in Range(PreReservations) :
          \/ p \in Range(Reservations)
          \/ /\ last.op = "ReservationService.cancel"
             /\ last.args.id = p.id
          \/ /\ last.op = "HotelService.delete"
             /\ last.args.id = p.hotel_id
          \/ /\ last.op = "CustomerService.delete"
             /\ last.args.id = p.customer_id
    /\ last.op = "ReservationService.get"
       => IF \E r \in Range(Reservations) : r.id = last.args.id
          THEN last.result = "ok" /\ last.ret = last.args.id
          ELSE last.result = "None"
    /\ \A r \in Range(Reservations) : r.id \notin removed \cup Dropped

\* get of a removed reservation finds nothing while another reservation
\* is stored
C14_Witness ==
    /\ last.op = "ReservationService.get"
    /\ last.args.id \in removed
    /\ last.result = "None"
    /\ Reservations # <<>>

\* a create of caller p has returned its reservation, which is not stored
\* although no cancel removed it
LostCreate(p) ==
    /\ procs[p].pc = "done"
    /\ procs[p].op = "create"
    /\ procs[p].result = "ok"
    /\ Val(procs[p].new_res).id \notin removed
    /\ \A r \in Range(Reservations) : r.id # Val(procs[p].new_res).id

\* C15: when calls on the reservations interleave at the grain of loads
\* and saves, a state is reachable in which two creates have both returned
\* their reservation and only one of the two is stored; no such state is
\* reachable by serialized calls: a returned reservation is missing only
\* if some save replaced a file that had changed since it was loaded.
C15_LostUpdateNeedsInterleaving ==
    (\E p \in Procs : LostCreate(p)) => \E q \in Procs : procs[q].stale

\* two creates for different nights have both returned their reservation
\* and one reservation is stored
C15_Witness ==
    /\ \A p \in Procs : procs[p].pc = "done" /\ procs[p].op = "create"
                        /\ procs[p].result = "ok"
    /\ Val(procs[1].new_res).check_in # Val(procs[2].new_res).check_in
    /\ removed = {}
    /\ Len(Reservations) = 1
    /\ LostCreate(1)

\* the array a completed dump puts in the target
NewContent == Array(Dicts(storage.kind, storage.entities))

\* during and after a save the target file holds all of the previous
\* content or all of the new one, and the previous one once a step has
\* raised
TargetWhole ==
    storage.pc # "idle"
    => /\ disk[storage.kind] \in {storage.old, NewContent}
       /\ storage.raised => disk[storage.kind] = storage.old

\* C16: with save as the steps create-temp, write-temp, rename, cleanup
\* and a failure possible at any of them, the target file holds in every
\* state all of the previous content or all of the new one; a failure
\* before the rename leaves the previous content; and when save has
\* returned by raising, no temporary file remains in the directory.
C16_CrashAtomic ==
    /\ TargetWhole
    /\ storage.pc = "raised" => disk.tmp = Absent

\* the file the completed call of the storage read or wrote, before the
\* call and after it
FileBefore == last.args.before[last.args.kind]
FileAfter == disk[last.args.kind]

\* C17: for each kind, load returns the empty collection and does not
\* raise when the collection file is empty, is absent (removed after the
\* storage was constructed included), is not valid JSON, or is valid JSON
\* that is not an array.
C17_FileTolerance ==
    (/\ last.op = "load"
     /\ FileBefore.kind \in {"empty", "blank", "absent", "invalid", "object"})
    => /\ last.result = "ok"
       /\ last.ret = <<>>

\* the keys an element of each kind must have
Required(kind) ==
    IF kind = "hotels" THEN {"id", "name", "total_rooms"}
    ELSE IF kind = "customers" THEN {"id", "name", "email"}
    ELSE {"id", "customer_id", "hotel_id", "check_in", "check_out"}

\* an element with every required field, and for a reservation two dates
\* of the calendar, the first before the second
WellFormed(kind, obj) ==
    /\ Required(kind) \subseteq DOMAIN obj
    /\ kind = "reservations"
       => /\ date_from_iso(obj.check_in).err = "none"
          /\ date_from_iso(obj.check_out).err = "none"
          /\ date_from_iso(obj.check_in).val
                < date_from_iso(obj.check_out).val

\* C18: for each kind, load of a file that is a JSON array never raises
\* and returns exactly the elements that have every required field
\* well-formed, in file order: an element with a missing or a malformed
\* required field is skipped.
C18_ElementTolerance ==
    (last.op = "load" /\ FileBefore.kind = "array")
    => /\ last.result = "ok"
       /\ last.ret =
             Load(last.args.kind,
                  Array(SelectSeq(FileBefore.items,
                                  LAMBDA obj : WellFormed(last.args.kind,
                                                          obj)))).val

\* C19: for each kind, load after save returns the saved entities field
\* for field and in the same order, dates included; and a save of what
\* load returned leaves what load returns unchanged.
C19_RoundTrip ==
    last.op = "save"
    => /\ Load(last.args.kind, FileAfter) = Ok(last.args.entities)
       /\ Load(last.args.kind, FileBefore) = Ok(last.args.entities)
          => Load(last.args.kind, FileAfter) = Load(last.args.kind, FileBefore)

\* two reservations with different dates have been saved over a file that
\* JsonStorage did not write
C19_Witness ==
    /\ last.op = "save"
    /\ last.args.kind = "reservations"
    /\ Len(last.args.entities) = 2
    /\ last.args.entities[1].check_out # last.args.entities[2].check_out
    /\ FileBefore.kind = "invalid"
    /\ Len(FileAfter.items) = 2

\* C20: after JsonStorage is constructed on a root all three collection
\* files exist; a file that was absent holds an empty array, which loads
\* as the empty collection, and a file that existed keeps its content.
C20_Initialised ==
    last.op = "JsonStorage"
    => \A kind \in Kinds :
          /\ disk[kind] # Absent
          /\ last.args.before[kind] = Absent
             => /\ disk[kind] = Array(<<>>)
                /\ Load(kind, disk[kind]) = Ok(<<>>)
          /\ last.args.before[kind] # Absent
             => disk[kind] = last.args.before[kind]

\* the storage is constructed on a root without hotels.json whose
\* customers.json holds two items
C20_Witness ==
    /\ last.op = "JsonStorage"
    /\ last.args.before.hotels = Absent
    /\ last.args.before.customers.kind = "array"
    /\ Len(disk.customers.items) = 2
    /\ disk.hotels = Array(<<>>)

\* C21: overlaps is symmetric: for every pair of valid reservations a and
\* b, of any hotels and any ranges with check_in before check_out,
\* a.overlaps(b) is b.overlaps(a).
C21_OverlapsSymmetric ==
    last.op = "Reservation.overlaps" => last.result = last.ret

\* a stay that begins inside a longer stay at another hotel overlaps it
C21_Witness ==
    /\ last.op = "Reservation.overlaps"
    /\ last.result = "true"
    /\ last.args.self.hotel_id # last.args.other.hotel_id
    /\ last.args.self.check_in > last.args.other.check_in
    /\ last.args.self.check_out = last.args.other.check_out

\* C22: with creates and cancels of two callers interleaved at the grain of
\* loads and saves, and the room counts left alone, every stored state of
\* the reservations holds, for each stored hotel and each date, at most
\* total_rooms reservations covering the date; so does every list a caller
\* has loaded, changed and is about to save.
C22_RaceCapacity ==
    \A h \in Range(Hotels), d \in Dates :
        /\ Covering(Reservations, h.id, d) <= h.total_rooms
        /\ \A p \in Procs :
              procs[p].pc = "loaded" =>
                  Covering(procs[p].mem, h.id, d) <= h.total_rooms

\* two creates for the same night of the one-room hotel both loaded the
\* empty file, both passed the capacity test and both saved: one is stored
C22_Witness ==
    /\ \A p \in Procs : procs[p].pc = "done" /\ procs[p].op = "create"
                        /\ procs[p].result = "ok"
    /\ Val(procs[1].new_res).check_in = Val(procs[2].new_res).check_in
    /\ Val(procs[1].new_res).hotel_id = Val(procs[2].new_res).hotel_id
    /\ \E p \in Procs : procs[p].stale
    /\ Len(Reservations) = 1

\* the hotel and the customer of reservation r are both stored
Referenced(r) ==
    /\ \E h \in Range(Hotels) : h.id = r.hotel_id
    /\ \E c \in Range(Customers) : c.id = r.customer_id

\* caller q has deleted the hotel or the customer of reservation r
DeletedParentOf(q, r) ==
    /\ procs[q].pc = "done"
    /\ procs[q].result = "true"
    /\ \/ procs[q].op = "HotelService.delete" /\ procs[q].id = r.hotel_id
       \/ procs[q].op = "CustomerService.delete"
          /\ procs[q].id = r.customer_id

\* caller p has created a reservation that is stored
CreatedStored(p) ==
    /\ procs[p].pc = "done"
    /\ procs[p].op = "create"
    /\ procs[p].result = "ok"
    /\ Val(procs[p].new_res) \in Range(Reservations)

\* C23: when a ReservationService.create interleaves with the delete of its
\* hotel or of its customer, a state is reachable in which both have
\* returned successfully and the reservation is stored without its parent;
\* it is the stale existence check that lets it through: the create found
\* the parent stored, and the delete had loaded the reservations before the
\* create saved its own, so that the cascade never saw it.
C23_OrphanFromStaleCheck ==
    \A p \in Procs, q \in Procs :
        (CreatedStored(p) /\ DeletedParentOf(q, Val(procs[p].new_res)))
        => /\ ~Referenced(Val(procs[p].new_res))
           /\ Val(procs[p].hotel).id = Val(procs[p].new_res).hotel_id
           /\ Val(procs[p].new_res)
                 \notin Range(load_reservations(procs[q].seen))

\* the create and the delete of its hotel have both returned successfully
\* and the reservation is stored for a hotel that is not
C23_Witness ==
    \E p \in Procs, q \in Procs :
        /\ CreatedStored(p)
        /\ DeletedParentOf(q, Val(procs[p].new_res))
        /\ procs[q].op = "HotelService.delete"
        /\ \A h \in Range(Hotels) : h.id # Val(procs[p].new_res).hotel_id
        /\ \E c \in Range(Customers) :
              c.id = Val(procs[p].new_res).customer_id

\* the same with the delete of the customer
C23_CustomerOrphan ==
    \E p \in Procs, q \in Procs :
        /\ CreatedStored(p)
        /\ DeletedParentOf(q, Val(procs[p].new_res))
        /\ procs[q].op = "CustomerService.delete"
        /\ \A c \in Range(Customers) :
              c.id # Val(procs[p].new_res).customer_id

\* the stored reservations are those the delete began with, less the
\* reservations of the parent it deletes
CascadeDone(p) ==
    Reservations = IF procs[p].op = "HotelService.delete"
                   THEN HotelCascade(PreReservations, procs[p].id)
                   ELSE CustomerCascade(PreReservations, procs[p].id)

\* the parent that caller p deletes is still stored, with the rest of the
\* hotels and customers
ParentKept(p) ==
    /\ hotelsFile = pre.hotels
    /\ customersFile = pre.customers
    /\ \E x \in Range(Hotels) \cup Range(Customers) : x.id = procs[p].id

\* the parent that caller p deletes is stored no more, the other
\* collection of parents is as it was
ParentGone(p) ==
    IF procs[p].op = "HotelService.delete"
    THEN /\ Hotels = Filter(PreHotels, LAMBDA h : h.id # procs[p].id)
         /\ customersFile = pre.customers
    ELSE /\ Customers = Filter(PreCustomers, LAMBDA c : c.id # procs[p].id)
         /\ hotelsFile = pre.hotels

\* C24: HotelService.delete and CustomerService.delete save the filtered
\* reservations before the parents: in every state of a delete, one that
\* stopped between the two saves included, every stored reservation has
\* its hotel and its customer stored, and the files are as they were when
\* the delete began, or the reservations of the parent are gone and the
\* parent is still stored, or both are gone.
C24_CascadeOrder ==
    /\ \A r \in Range(Reservations) : Referenced(r)
    /\ \A p \in Procs :
          procs[p].op \in Deletes =>
              \/ FilesUntouched
              \/ CascadeDone(p) /\ ParentKept(p)
              \/ CascadeDone(p) /\ ParentGone(p) /\ procs[p].result = "true"

\* a delete of a hotel stopped after save_reservations: the hotel is
\* stored, its reservation is not, the reservation of the other hotel is
C24_Witness ==
    \E p \in Procs :
        /\ procs[p].op = "HotelService.delete"
        /\ procs[p].result = "stopped between the saves"
        /\ ParentKept(p)
        /\ Len(PreReservations) = 2
        /\ Len(Reservations) = 1

\* how load_* of a kind takes one item of the file: "none" when it makes an
\* entity of it, else the error the item raises
ItemError(kind, obj) ==
    IF kind = "hotels" THEN HotelFromObj(obj).err
    ELSE IF kind = "customers" THEN CustomerFromObj(obj).err
    ELSE ReservationFromObj(obj).err

\* the items of a file that load_* of the kind makes no entity of
Malformed(kind, file) ==
    {file[i] : i \in {j \in 1..Len(file) : ItemError(kind, file[j]) # "none"}}

\* the items that load_* of the kind skips: those that raise what the
\* except clause names
Skipped(kind, file) ==
    {obj \in Malformed(kind, file) : ItemError(kind, obj) # "KeyError"}

\* the collections that a call saves when it succeeds
SavedBy(op) ==
    IF op \in {"HotelService.create", "HotelService.update"} THEN {"hotels"}
    ELSE IF op = "HotelService.delete" THEN {"hotels", "reservations"}
    ELSE IF op \in {"CustomerService.create", "CustomerService.update"}
         THEN {"customers"}
    ELSE IF op = "CustomerService.delete" THEN {"customers", "reservations"}
    ELSE IF op \in {"ReservationService.create", "ReservationService.cancel"}
         THEN {"reservations"}
    ELSE {}

\* the file of the kind as the completed call found it
PreFileOf(kind) ==
    IF kind = "hotels" THEN pre.hotels
    ELSE IF kind = "customers" THEN pre.customers
    ELSE pre.reservations

\* every item of the file is an entity that was loaded from the file as
\* it was, saved again, or the entity the call made or changed
OnlyLoadedAndChange(kind) ==
    \A i \in 1..Len(FileOf(kind)) :
        \/ FileOf(kind)[i] \in Range(Dicts(kind, Load(kind,
                                      Array(PreFileOf(kind))).val))
        \/ FileOf(kind)[i].id = last.ret

C25_KeptByFailure ==
    /\ last.op = "ReservationService.cancel"
    /\ last.result = "false"
    /\ Skipped("reservations", reservationsFile) # {}

====
